---- MODULE Spec2Model ----
(***************************************************************************)
(* The cart / order / payment state machine of cart/views.py.              *)
(*                                                                         *)
(* The database tables are the state: Order, OrderItem, Address,           *)
(* StripePayment and Payment rows, plus the payment processor's intents    *)
(* and the wall clock.  Every view is one action of Spec (a request served *)
(* alone).  SpecConc serves the requests of two workers step by step, one  *)
(* database statement at a time, as the views run without a transaction.   *)
(***************************************************************************)
EXTENDS Integers, Sequences, FiniteSets, TLC

\* ------------------------------------------------------------------ bounds
MaxOrders == 2
MaxItems == 2
MaxQty == 3
MaxAddQty == MaxQty - 1
MaxIntents == 2
MaxPayments == MaxOrders
MaxAddresses == 2
MaxTime == 2
MaxRequests == 4

\* ------------------------------------------------------------ input domains
Users == {"u1", "u2"}
\* (product, colour, size) combinations the add-to-cart form is submitted with:
\* pairwise they differ in exactly one of the three attributes, or in all.
Variants == {<<"A", "red", "M">>, <<"A", "blue", "M">>, <<"A", "red", "L">>,
             <<"B", "red", "M">>}
\* The confirmation body's purchase_units[*].amount.value: none, or one amount.
Bodies == {<<>>, <<2500>>}
EventTypes == {"payment_intent.succeeded", "charge.refunded"}
Payloads == {"wellformed", "malformed"}
Signatures == {"valid", "invalid"}
StripeOutcomes == {"ok", "CardError", "StripeError"}

VARIABLES
    orders,          \* Order rows, by id: owner, ordered, ordered_date, addresses
    items,           \* OrderItem rows
    itemSeq,         \* the OrderItem id sequence (ids are never reused)
    addresses,       \* Address rows, by id
    stripePayments,  \* StripePayment rows, by id
    payments,        \* Payment rows, in insertion order
    intents,         \* the processor's payment intents, by id
    now,             \* the clock read by date.today() and timezone.now()
    response,        \* the last request served and its outcome
    ledger,          \* history: per order and variant, the net quantity requested
    flippers,        \* history: per order, the paths that wrote ordered=True
    pc,              \* SpecConc: each worker's request in flight
    served           \* SpecConc: the requests begun so far

vars == <<orders, items, itemSeq, addresses, stripePayments, payments, intents,
          now, response, ledger, flippers, pc, served>>

db == <<orders, items, itemSeq, addresses, stripePayments, payments, intents>>

\* ---------------------------------------------------------------- helpers
None == <<>>
Some(x) == <<x>>

Workers == {1, 2}
Idle == [at |-> "idle"]

OrderIds == 1..MaxOrders
Keys == {<<o, v[1], v[2], v[3]>> : o \in OrderIds, v \in Variants}

\* Order() as the session resolver creates it.
NewOrder(u) ==
    [owner |-> u, ordered |-> FALSE, ordered_date |-> None,
     shipping_address |-> None, billing_address |-> None]

OpenOrders(ords, u) ==
    {o \in DOMAIN ords : ords[o].owner = u /\ ~ords[o].ordered}

\* get_or_set_order_session: the caller's open order, created when there is none.
CanResolve(u) == OpenOrders(orders, u) # {} \/ Len(orders) < MaxOrders

ResolvedOrders(ords, u) ==
    IF OpenOrders(ords, u) # {} THEN ords ELSE Append(ords, NewOrder(u))

ResolvedId(ords, u) ==
    IF OpenOrders(ords, u) # {}
    THEN CHOOSE o \in OpenOrders(ords, u) : \A x \in OpenOrders(ords, u) : o <= x
    ELSE Len(ords) + 1

ItemIds == {i.id : i \in items}
Item(pk) == CHOOSE i \in items : i.id = pk
KeyOf(i) == <<i.order, i.product, i.colour, i.size>>

UnitPrice(product) == IF product = "A" THEN 1000 ELSE 500

RECURSIVE SumOver(_)
SumOver(S) ==
    IF S = {} THEN 0
    ELSE LET i == CHOOSE x \in S : TRUE
         IN i.quantity * UnitPrice(i.product) + SumOver(S \ {i})

\* Order.get_raw_total: minor units, over the items at call time.
get_raw_total(its, o) == SumOver({i \in its : i.order = o})

\* Order.get_total: the display total, units and cents.
get_total(its, o) ==
    <<get_raw_total(its, o) \div 100, get_raw_total(its, o) % 100>>

Resp(view, status) == [view |-> view, status |-> status]

\* ------------------------------------------------------------------- Init
Init ==
    /\ orders = <<>>
    /\ items = {}
    /\ itemSeq = 0
    /\ addresses = <<>>
    /\ stripePayments = <<>>
    /\ payments = <<>>
    /\ intents = <<>>
    /\ now = 1
    /\ response = Resp("none", 0)
    /\ ledger = [k \in Keys |-> 0]
    /\ flippers = [o \in OrderIds |-> {}]
    /\ pc = [w \in Workers |-> Idle]
    /\ served = 0

\* ------------------------------------------------------ Line Item Ledger
\* ProductDetailView.form_valid, lines 76-89: merge into the matching row or
\* insert the form's row.  `seen` is the result of the filter at line 76.
Matching(its, o, product, colour, size) ==
    {i \in its : i.order = o /\ i.product = product
                 /\ i.colour = colour /\ i.size = size}

FirstOf(S) == CHOOSE i \in S : \A x \in S : i.id <= x.id

\* A form_valid that saves the form's row without looking for a matching one.
MergedItems_insert(its, seq, seen, o, product, colour, size, quantity) ==
    its \cup {[id |-> seq + 1, order |-> o, product |-> product,
               colour |-> colour, size |-> size, quantity |-> quantity]}

MergedItems(its, seq, seen, o, product, colour, size, quantity) ==
    IF seen = {}
    THEN its \cup {[id |-> seq + 1, order |-> o, product |-> product,
                    colour |-> colour, size |-> size, quantity |-> quantity]}
    ELSE LET item == FirstOf(seen)
         IN {i \in its : i.id # item.id}
            \cup {[item EXCEPT !.quantity = item.quantity + quantity]}

ProductDetailView_form_valid(u, product, colour, size, quantity) ==
    /\ CanResolve(u)
    /\ LET o == ResolvedId(orders, u)
           seen == Matching(items, o, product, colour, size)
       IN /\ IF seen = {} THEN itemSeq < MaxItems
             ELSE FirstOf(seen).quantity + quantity <= MaxQty
          /\ orders' = ResolvedOrders(orders, u)
          /\ items' = MergedItems(items, itemSeq, seen, o, product, colour, size, quantity)
          /\ itemSeq' = IF seen = {} THEN itemSeq + 1 ELSE itemSeq
          /\ ledger' = [ledger EXCEPT ![<<o, product, colour, size>>] = @ + quantity]
          /\ response' = Resp("add", 302)
    /\ UNCHANGED <<addresses, stripePayments, payments, intents, now, pc, served, flippers>>

\* IncreaseQuantityView.get, lines 111-114.
IncreasedItems(its, pk, quantity) ==
    {IF i.id = pk THEN [i EXCEPT !.quantity = quantity + 1] ELSE i : i \in its}

IncreaseQuantityView_get(u, pk) ==
    /\ IF pk \in ItemIds
       THEN /\ Item(pk).quantity < MaxQty
            /\ items' = IncreasedItems(items, pk, Item(pk).quantity)
            /\ ledger' = [ledger EXCEPT ![KeyOf(Item(pk))] = @ + 1]
            /\ response' = Resp("increase", 302)
       ELSE /\ response' = Resp("increase", 404)
            /\ UNCHANGED <<items, ledger>>
    /\ UNCHANGED <<orders, itemSeq, addresses, stripePayments, payments, intents,
                   now, pc, served, flippers>>

\* DecreaseQuantityView.get, lines 120-126.
\* A decrease that deletes below 1 instead of at 1.
DecreasedItems_below(its, pk, quantity) ==
    IF quantity < 1
    THEN {i \in its : i.id # pk}
    ELSE {IF i.id = pk THEN [i EXCEPT !.quantity = quantity - 1] ELSE i : i \in its}

DecreasedItems(its, pk, quantity) ==
    IF quantity <= 1
    THEN {i \in its : i.id # pk}
    ELSE {IF i.id = pk THEN [i EXCEPT !.quantity = quantity - 1] ELSE i : i \in its}

DecreaseQuantityView_get(u, pk) ==
    /\ IF pk \in ItemIds
       THEN /\ items' = DecreasedItems(items, pk, Item(pk).quantity)
            /\ ledger' = [ledger EXCEPT ![KeyOf(Item(pk))] = @ - 1]
            /\ response' = Resp("decrease", 302)
       ELSE /\ response' = Resp("decrease", 404)
            /\ UNCHANGED <<items, ledger>>
    /\ UNCHANGED <<orders, itemSeq, addresses, stripePayments, payments, intents,
                   now, pc, served, flippers>>

\* RemoveFromCartView.get, lines 132-134.
RemovedItems(its, pk) == {i \in its : i.id # pk}

RemoveFromCartView_get(u, pk) ==
    /\ IF pk \in ItemIds
       THEN /\ items' = RemovedItems(items, pk)
            /\ ledger' = [ledger EXCEPT ![KeyOf(Item(pk))] = 0]
            /\ response' = Resp("remove", 302)
       ELSE /\ response' = Resp("remove", 404)
            /\ UNCHANGED <<items, ledger>>
    /\ UNCHANGED <<orders, itemSeq, addresses, stripePayments, payments, intents,
                   now, pc, served, flippers>>

\* CartView.get_context_data and PaymentView.get_context_data: resolve only.
CartView_get_context_data(u) ==
    /\ CanResolve(u)
    /\ orders' = ResolvedOrders(orders, u)
    /\ response' = Resp("cart", 200)
    /\ UNCHANGED <<items, itemSeq, addresses, stripePayments, payments, intents,
                   now, ledger, pc, served, flippers>>

\* ------------------------------------------------------------- Checkout
AddressIds(addrs, u, type) ==
    {a \in DOMAIN addrs : addrs[a].user = u /\ addrs[a].address_type = type}

\* The choices the address form offers: none, or one of the caller's addresses.
Selectable(u, type) == {None} \cup {Some(a) : a \in AddressIds(addresses, u, type)}

\* Address.objects.create, lines 155-162 and 168-175.
CreatedAddresses(addrs, u, type) ==
    Append(addrs, [address_type |-> type, user |-> u])

\* CheckoutView.form_valid, lines 145-180.
CheckoutView_form_valid(u, selected_shipping_address, selected_billing_address) ==
    /\ CanResolve(u)
    /\ LET o == ResolvedId(orders, u)
           a1 == IF selected_shipping_address # None THEN addresses
                 ELSE CreatedAddresses(addresses, u, "S")
           shipping == IF selected_shipping_address # None
                       THEN selected_shipping_address ELSE Some(Len(a1))
           a2 == IF selected_billing_address # None THEN a1
                 ELSE CreatedAddresses(a1, u, "B")
           billing == IF selected_billing_address # None
                      THEN selected_billing_address ELSE Some(Len(a2))
       IN /\ Len(a2) <= MaxAddresses
          /\ addresses' = a2
          /\ orders' = [ResolvedOrders(orders, u) EXCEPT
                            ![o].shipping_address = shipping,
                            ![o].billing_address = billing]
    /\ response' = Resp("checkout", 302)
    /\ UNCHANGED <<items, itemSeq, stripePayments, payments, intents, now,
                   ledger, pc, served, flippers>>

\* ------------------------------------------- Payment Intent Gateway Adapter
\* payment_intent["id"] as line 226 stores it, and as line 330 looks it up.
IntentId(n) == [repr |-> "str", pi |-> n]

\* Line 253 ends in a comma: the value assigned is the 1-tuple (id,), which
\* the column stores as the text of the tuple.
IntentIdTuple(n) == [repr |-> "tuple", pi |-> n]

\* The processor creates an intent only for a positive amount; for an empty
\* cart stripe.PaymentIntent.create raises (the "StripeError" outcome).
Chargeable(its, o) == get_raw_total(its, o) > 0

\* stripe.PaymentIntent.create: the processor's new intent.
CreatedIntents(ints, o, amount, confirmed) ==
    Append(ints, [order |-> o, amount |-> amount, confirmed |-> confirmed])

\* StripePayment.objects.get_or_create(order=order), then the two assignments
\* and save(update_fields=['payment_intent_id', 'amount']).
RecordsOf(sps, o) == {j \in DOMAIN sps : sps[j].order = o}

UpsertedStripePayments(sps, o, payment_intent_id, amount) ==
    IF RecordsOf(sps, o) = {}
    THEN Append(sps, [order |-> o, payment_intent_id |-> payment_intent_id,
                      amount |-> amount, successful |-> FALSE])
    ELSE LET j == CHOOSE x \in RecordsOf(sps, o) : \A y \in RecordsOf(sps, o) : x <= y
         IN [sps EXCEPT ![j].payment_intent_id = payment_intent_id,
                        ![j].amount = amount]

\* Lines 213-234: an exception of stripe.PaymentIntent.create (line 215) leaves
\* the try block before get_or_create and save (lines 223-228) are reached.
\* A form_valid that goes on to write the record whatever the processor said.
SavedCardRecords_swallowed(sps, its, o, n, outcome) ==
    UpsertedStripePayments(sps, o, IntentId(n), get_total(its, o))

SavedCardRecords(sps, its, o, n, outcome) ==
    IF outcome = "ok"
    THEN UpsertedStripePayments(sps, o, IntentId(n), get_total(its, o))
    ELSE sps

\* The answer of the saved-card branch: the redirect of line 235, after the
\* handler of lines 229-234 has fetched the intent again and queued the
\* warning for a CardError; any other stripe error leaves the view uncaught.
SavedCardResponse(outcome) ==
    CASE outcome = "ok" -> Resp("stripe_form", 302)
      [] outcome = "CardError" -> Resp("stripe_warning", 302)
      [] OTHER -> Resp("stripe_form", 500)

\* StripePaymentView.form_valid, lines 210-235.
StripePaymentView_form_valid(u, payment_method, outcome) ==
    /\ IF payment_method = "newCard"
       THEN /\ response' = Resp("stripe_form", 302)
            /\ UNCHANGED <<orders, stripePayments, intents>>
       ELSE /\ CanResolve(u)
            /\ orders' = ResolvedOrders(orders, u)
            /\ LET o == ResolvedId(orders, u)
               IN /\ outcome \in {"ok", "CardError"} =>
                        Chargeable(items, o) /\ Len(intents) < MaxIntents
                  /\ intents' = IF outcome \in {"ok", "CardError"}
                                THEN CreatedIntents(intents, o, get_raw_total(items, o),
                                                    outcome = "ok")
                                ELSE intents
                  /\ stripePayments' = SavedCardRecords(stripePayments, items, o,
                                                        Len(intents) + 1, outcome)
                  /\ response' = SavedCardResponse(outcome)
    /\ UNCHANGED <<items, itemSeq, addresses, payments, now, ledger, pc, served, flippers>>

\* StripePaymentView.get_context_data, lines 244-272.
StripePaymentView_get_context_data(u, outcome) ==
    /\ CanResolve(u)
    /\ orders' = ResolvedOrders(orders, u)
    /\ LET o == ResolvedId(orders, u)
       IN IF outcome = "ok"
          THEN /\ Chargeable(items, o)
               /\ Len(intents) < MaxIntents
               /\ intents' = CreatedIntents(intents, o, get_raw_total(items, o), FALSE)
               /\ stripePayments' = UpsertedStripePayments(
                      stripePayments, o, IntentIdTuple(Len(intents) + 1),
                      get_total(items, o))
               /\ response' = Resp("stripe_page", 200)
          ELSE /\ response' = Resp("stripe_page", 500)
               /\ UNCHANGED <<stripePayments, intents>>
    /\ UNCHANGED <<items, itemSeq, addresses, payments, now, ledger, pc, served, flippers>>

\* ------------------------------------------------- Confirmation Reconciler
\* datetime.date.today(), line 288, and timezone.now(), line 336.
today == Some(now)
timezone_now == Some(now)

\* A flip that is not narrowed to the one order.
PlacedOrders_all(ords, o, date) ==
    [x \in DOMAIN ords |-> [ords[x] EXCEPT !.ordered = TRUE, !.ordered_date = date]]

\* Lines 287-289 and 335-337: the flag and the date, written to order o.
PlacedOrders(ords, o, date) ==
    [ords EXCEPT ![o].ordered = TRUE, ![o].ordered_date = date]

\* Payment.objects.create, lines 280-286.
CreatedPayments(pays, o, amount) ==
    Append(pays, [order |-> o, successful |-> TRUE, amount |-> amount,
                  payment_method |-> "PayPal"])

\* ConfirmOrderView.post, lines 278-290.
ConfirmOrderView_post(u, body) ==
    /\ CanResolve(u)
    /\ LET o == ResolvedId(orders, u)
       IN IF body = <<>>
          THEN /\ orders' = ResolvedOrders(orders, u)
               /\ response' = Resp("confirm", 500)
               /\ UNCHANGED <<payments, flippers>>
          ELSE /\ Len(payments) < MaxPayments
               /\ payments' = CreatedPayments(payments, o, body[1])
               /\ orders' = PlacedOrders(ResolvedOrders(orders, u), o, today)
               /\ flippers' = [flippers EXCEPT ![o] = @ \cup {"confirm"}]
               /\ response' = Resp("confirm", 200)
    /\ UNCHANGED <<items, itemSeq, addresses, stripePayments, intents, now, ledger, pc, served>>

\* stripe.Webhook.construct_event, lines 315-324.
construct_event(payload, sig_header) ==
    IF sig_header # "valid" THEN "SignatureVerificationError"
    ELSE IF payload # "wellformed" THEN "ValueError"
    ELSE "event"

\* StripePayment.objects.get(payment_intent_id=...), lines 329-331.
RecordsWithIntent(sps, n) ==
    {j \in DOMAIN sps : sps[j].payment_intent_id = IntentId(n)}

\* A webhook that handles every verified event as a succeeded payment.
WebhookStatus_anytype(header, payload, sig_header, type, n) ==
    IF ~header THEN 500
    ELSE IF construct_event(payload, sig_header) # "event" THEN 400
    ELSE IF Cardinality(RecordsWithIntent(stripePayments, n)) # 1 THEN 500
    ELSE 200

\* The status stripe_webhook_view answers with, lines 311-342.
WebhookStatus(header, payload, sig_header, type, n) ==
    IF ~header THEN 500
    ELSE IF construct_event(payload, sig_header) # "event" THEN 400
    ELSE IF type # "payment_intent.succeeded" THEN 400
    ELSE IF Cardinality(RecordsWithIntent(stripePayments, n)) # 1 THEN 500
    ELSE 200

\* Lines 332-333: save() writes every column of the row as it was read.
SucceededStripePayments(sps, j, stripe_payment) ==
    [sps EXCEPT ![j] = [stripe_payment EXCEPT !.successful = TRUE]]

\* stripe_webhook_view, lines 308-342.
stripe_webhook_view(header, payload, sig_header, type, n) ==
    /\ response' = Resp("webhook", WebhookStatus(header, payload, sig_header, type, n))
    /\ IF WebhookStatus(header, payload, sig_header, type, n) = 200
       THEN LET j == CHOOSE x \in RecordsWithIntent(stripePayments, n) : TRUE
                stripe_payment == stripePayments[j]
            IN /\ stripePayments' = SucceededStripePayments(stripePayments, j, stripe_payment)
               /\ orders' = PlacedOrders(orders, stripe_payment.order, timezone_now)
               /\ flippers' = [flippers EXCEPT ![stripe_payment.order] = @ \cup {"webhook"}]
       ELSE UNCHANGED <<orders, stripePayments, flippers>>
    /\ UNCHANGED <<items, itemSeq, addresses, payments, intents, now, ledger, pc, served>>

Tick ==
    /\ now < MaxTime
    /\ now' = now + 1
    /\ UNCHANGED <<db, response, ledger, pc, served, flippers>>

Next ==
    \/ \E u \in Users, v \in Variants, quantity \in 1..MaxAddQty :
          ProductDetailView_form_valid(u, v[1], v[2], v[3], quantity)
    \/ \E u \in Users, pk \in 1..MaxItems : IncreaseQuantityView_get(u, pk)
    \/ \E u \in Users, pk \in 1..MaxItems : DecreaseQuantityView_get(u, pk)
    \/ \E u \in Users, pk \in 1..MaxItems : RemoveFromCartView_get(u, pk)
    \/ \E u \in Users : CartView_get_context_data(u)
    \/ \E u \in Users : \E s \in Selectable(u, "S"), b \in Selectable(u, "B") :
          CheckoutView_form_valid(u, s, b)
    \/ \E u \in Users, payment_method \in {"newCard", "pm_1"}, outcome \in StripeOutcomes :
          StripePaymentView_form_valid(u, payment_method, outcome)
    \/ \E u \in Users, outcome \in {"ok", "StripeError"} :
          StripePaymentView_get_context_data(u, outcome)
    \/ \E u \in Users, body \in Bodies : ConfirmOrderView_post(u, body)
    \/ \E header \in BOOLEAN, payload \in Payloads, sig_header \in Signatures,
          type \in EventTypes, n \in 1..MaxIntents :
          stripe_webhook_view(header, payload, sig_header, type, n)
    \/ Tick

Spec == Init /\ [][Next]_vars

\* The cart operations of every caller, and the confirmation that places a cart.
NextCart ==
    \/ \E u \in Users, v \in Variants, quantity \in 1..MaxAddQty :
          ProductDetailView_form_valid(u, v[1], v[2], v[3], quantity)
    \/ \E u \in Users, pk \in 1..MaxItems : IncreaseQuantityView_get(u, pk)
    \/ \E u \in Users, pk \in 1..MaxItems : DecreaseQuantityView_get(u, pk)
    \/ \E u \in Users, pk \in 1..MaxItems : RemoveFromCartView_get(u, pk)
    \/ \E u \in Users : CartView_get_context_data(u)
    \/ \E u \in Users, body \in Bodies : ConfirmOrderView_post(u, body)

SpecCart == Init /\ [][NextCart]_vars

\* One caller's payment flow: fill the cart, begin an intent on either path,
\* and the confirmations that arrive, as time passes.
Payers == {"u1"}

NextReconcile ==
    \/ \E u \in Payers : ProductDetailView_form_valid(u, "A", "red", "M", 1)
    \/ \E u \in Payers : StripePaymentView_form_valid(u, "pm_1", "ok")
    \/ \E u \in Payers : StripePaymentView_get_context_data(u, "ok")
    \/ \E u \in Payers : ConfirmOrderView_post(u, <<2500>>)
    \/ \E header \in BOOLEAN, payload \in Payloads, sig_header \in Signatures,
          type \in EventTypes, n \in 1..MaxIntents :
          stripe_webhook_view(header, payload, sig_header, type, n)
    \/ Tick

SpecReconcile == Init /\ [][NextReconcile]_vars

\* One caller's cart and saved-card payments, with every answer the processor
\* can give, and the webhooks of the intents.
NextPay ==
    \/ \E u \in Payers : ProductDetailView_form_valid(u, "A", "red", "M", 1)
    \/ \E u \in Payers, pk \in 1..MaxItems : IncreaseQuantityView_get(u, pk)
    \/ \E u \in Payers, pk \in 1..MaxItems : DecreaseQuantityView_get(u, pk)
    \/ \E u \in Payers, payment_method \in {"newCard", "pm_1"},
          outcome \in StripeOutcomes :
          StripePaymentView_form_valid(u, payment_method, outcome)
    \/ \E n \in 1..MaxIntents :
          stripe_webhook_view(TRUE, "wellformed", "valid",
                              "payment_intent.succeeded", n)

SpecPay == Init /\ [][NextPay]_vars

\* ------------------------------------------------ requests served in steps
\* The views run without a transaction (no ATOMIC_REQUESTS, no atomic block,
\* no select_for_update): each database statement of a request is a step, and
\* the steps of two workers interleave.
Begins(w) == pc[w] = Idle /\ served < MaxRequests /\ served' = served + 1
Goes(w, to) == pc' = [pc EXCEPT ![w] = to]
Ends(w, view, status) ==
    /\ pc' = [pc EXCEPT ![w] = Idle]
    /\ response' = Resp(view, status)

\* ProductDetailView.form_valid, lines 73-81: the order and the exists() query.
AddBegin(w, u, product, colour, size, quantity) ==
    /\ Begins(w)
    /\ CanResolve(u)
    /\ orders' = ResolvedOrders(orders, u)
    /\ LET o == ResolvedId(orders, u)
       IN Goes(w, [at |-> IF Matching(items, o, product, colour, size) = {}
                          THEN "add_insert" ELSE "add_first",
                   order |-> o, product |-> product, colour |-> colour,
                   size |-> size, quantity |-> quantity])
    /\ UNCHANGED <<items, itemSeq, addresses, stripePayments, payments, intents,
                   now, response, ledger, flippers>>

\* Lines 82-85: the insert of the form's row.
AddInsert(w) ==
    /\ pc[w].at = "add_insert"
    /\ itemSeq < MaxItems
    /\ items' = MergedItems(items, itemSeq, {}, pc[w].order, pc[w].product,
                            pc[w].colour, pc[w].size, pc[w].quantity)
    /\ itemSeq' = itemSeq + 1
    /\ ledger' = [ledger EXCEPT ![<<pc[w].order, pc[w].product, pc[w].colour,
                                    pc[w].size>>] = @ + pc[w].quantity]
    /\ Ends(w, "add", 302)
    /\ UNCHANGED <<orders, addresses, stripePayments, payments, intents, now,
                   served, flippers>>

\* Line 87: item_filter.first(), a second query; None raises at line 88.
AddFirst(w) ==
    /\ pc[w].at = "add_first"
    /\ LET seen == Matching(items, pc[w].order, pc[w].product, pc[w].colour,
                            pc[w].size)
       IN IF seen = {}
          THEN Ends(w, "add", 500)
          ELSE /\ Goes(w, [at |-> "add_save", item |-> FirstOf(seen),
                           quantity |-> pc[w].quantity])
               /\ UNCHANGED response
    /\ UNCHANGED <<db, now, ledger, served, flippers>>

\* Lines 88-89: item.save() writes the row as read, plus the quantity added.
AddSave(w) ==
    /\ pc[w].at = "add_save"
    /\ pc[w].item.quantity + pc[w].quantity <= MaxQty
    /\ items' = MergedItems(items, itemSeq, {pc[w].item}, pc[w].item.order,
                            pc[w].item.product, pc[w].item.colour,
                            pc[w].item.size, pc[w].quantity)
    /\ ledger' = [ledger EXCEPT ![KeyOf(pc[w].item)] = @ + pc[w].quantity]
    /\ Ends(w, "add", 302)
    /\ UNCHANGED <<orders, itemSeq, addresses, stripePayments, payments, intents,
                   now, served, flippers>>

\* IncreaseQuantityView.get, line 111.
IncreaseBegin(w, u, pk) ==
    /\ Begins(w)
    /\ IF pk \in ItemIds
       THEN Goes(w, [at |-> "increase_save", item |-> Item(pk)]) /\ UNCHANGED response
       ELSE Ends(w, "increase", 404)
    /\ UNCHANGED <<db, now, ledger, flippers>>

\* Lines 112-113: save(update_fields=['quantity']) fails when the row is gone.
IncreaseSave(w) ==
    /\ pc[w].at = "increase_save"
    /\ pc[w].item.quantity < MaxQty
    /\ IF pc[w].item.id \in ItemIds
       THEN /\ items' = IncreasedItems(items, pc[w].item.id, pc[w].item.quantity)
            /\ ledger' = [ledger EXCEPT ![KeyOf(pc[w].item)] = @ + 1]
            /\ Ends(w, "increase", 302)
       ELSE /\ Ends(w, "increase", 500)
            /\ UNCHANGED <<items, ledger>>
    /\ UNCHANGED <<orders, itemSeq, addresses, stripePayments, payments, intents,
                   now, served, flippers>>

\* DecreaseQuantityView.get, line 120.
DecreaseBegin(w, u, pk) ==
    /\ Begins(w)
    /\ IF pk \in ItemIds
       THEN Goes(w, [at |-> "decrease_save", item |-> Item(pk)]) /\ UNCHANGED response
       ELSE Ends(w, "decrease", 404)
    /\ UNCHANGED <<db, now, ledger, flippers>>

\* Lines 121-125: the delete, or the save of the quantity read less one.
DecreaseSave(w) ==
    /\ pc[w].at = "decrease_save"
    /\ IF pc[w].item.id \in ItemIds
       THEN /\ items' = DecreasedItems(items, pc[w].item.id, pc[w].item.quantity)
            /\ ledger' = [ledger EXCEPT ![KeyOf(pc[w].item)] = @ - 1]
            /\ Ends(w, "decrease", 302)
       ELSE /\ Ends(w, "decrease", IF pc[w].item.quantity <= 1 THEN 302 ELSE 500)
            /\ UNCHANGED <<items, ledger>>
    /\ UNCHANGED <<orders, itemSeq, addresses, stripePayments, payments, intents,
                   now, served, flippers>>

\* ConfirmOrderView.post, lines 278-279: the order, then the body.
ConfirmBegin(w, u, body) ==
    /\ Begins(w)
    /\ CanResolve(u)
    /\ orders' = ResolvedOrders(orders, u)
    /\ IF body = <<>>
       THEN Ends(w, "confirm", 500)
       ELSE /\ Goes(w, [at |-> "confirm_create", order |-> ResolvedId(orders, u),
                        amount |-> body[1]])
            /\ UNCHANGED response
    /\ UNCHANGED <<items, itemSeq, addresses, stripePayments, payments, intents,
                   now, ledger, flippers>>

\* Lines 280-286.
ConfirmCreate(w) ==
    /\ pc[w].at = "confirm_create"
    /\ Len(payments) < MaxPayments
    /\ payments' = CreatedPayments(payments, pc[w].order, pc[w].amount)
    /\ Goes(w, [at |-> "confirm_save", order |-> pc[w].order])
    /\ UNCHANGED <<orders, items, itemSeq, addresses, stripePayments, intents,
                   now, response, ledger, served, flippers>>

\* Lines 287-290: save(update_fields=['ordered', 'ordered_date']).
ConfirmSave(w) ==
    /\ pc[w].at = "confirm_save"
    /\ orders' = PlacedOrders(orders, pc[w].order, today)
    /\ flippers' = [flippers EXCEPT ![pc[w].order] = @ \cup {"confirm"}]
    /\ Ends(w, "confirm", 200)
    /\ UNCHANGED <<items, itemSeq, addresses, stripePayments, payments, intents,
                   now, ledger, served>>

\* stripe_webhook_view, lines 309-331: the checks and the StripePayment query.
WebhookBegin(w, header, payload, sig_header, type, n) ==
    /\ Begins(w)
    /\ IF WebhookStatus(header, payload, sig_header, type, n) = 200
       THEN LET j == CHOOSE x \in RecordsWithIntent(stripePayments, n) : TRUE
            IN /\ Goes(w, [at |-> "webhook_save_payment", id |-> j,
                           stripe_payment |-> stripePayments[j]])
               /\ UNCHANGED response
       ELSE Ends(w, "webhook", WebhookStatus(header, payload, sig_header, type, n))
    /\ UNCHANGED <<db, now, ledger, flippers>>

\* Lines 332-333.
WebhookSavePayment(w) ==
    /\ pc[w].at = "webhook_save_payment"
    /\ stripePayments' = SucceededStripePayments(stripePayments, pc[w].id,
                                                 pc[w].stripe_payment)
    /\ Goes(w, [at |-> "webhook_load_order", order |-> pc[w].stripe_payment.order])
    /\ UNCHANGED <<orders, items, itemSeq, addresses, payments, intents, now,
                   response, ledger, served, flippers>>

\* Line 334: stripe_payment.order reads the Order row.
WebhookLoadOrder(w) ==
    /\ pc[w].at = "webhook_load_order"
    /\ Goes(w, [at |-> "webhook_save_order", order |-> pc[w].order,
                row |-> orders[pc[w].order]])
    /\ UNCHANGED <<db, now, response, ledger, served, flippers>>

\* Lines 335-342: order.save() writes every column of the row as it was read.
WebhookSaveOrder(w) ==
    /\ pc[w].at = "webhook_save_order"
    /\ orders' = PlacedOrders([orders EXCEPT ![pc[w].order] = pc[w].row],
                              pc[w].order, timezone_now)
    /\ flippers' = [flippers EXCEPT ![pc[w].order] = @ \cup {"webhook"}]
    /\ Ends(w, "webhook", 200)
    /\ UNCHANGED <<items, itemSeq, addresses, stripePayments, payments, intents,
                   now, ledger, served>>

\* Two workers serve one caller's requests; a saved-card payment sets up the
\* StripePayment row a webhook can match.
NextConc ==
    \/ \E w \in Workers, u \in Payers : AddBegin(w, u, "A", "red", "M", 1)
    \/ \E w \in Workers : AddInsert(w)
    \/ \E w \in Workers : AddFirst(w)
    \/ \E w \in Workers : AddSave(w)
    \/ \E w \in Workers, u \in Payers, pk \in 1..MaxItems : IncreaseBegin(w, u, pk)
    \/ \E w \in Workers : IncreaseSave(w)
    \/ \E w \in Workers, u \in Payers, pk \in 1..MaxItems : DecreaseBegin(w, u, pk)
    \/ \E w \in Workers : DecreaseSave(w)
    \/ \E w \in Workers, u \in Payers : ConfirmBegin(w, u, <<2500>>)
    \/ \E w \in Workers : ConfirmCreate(w)
    \/ \E w \in Workers : ConfirmSave(w)
    \/ \E w \in Workers, n \in 1..MaxIntents :
          WebhookBegin(w, TRUE, "wellformed", "valid", "payment_intent.succeeded", n)
    \/ \E w \in Workers : WebhookSavePayment(w)
    \/ \E w \in Workers : WebhookLoadOrder(w)
    \/ \E w \in Workers : WebhookSaveOrder(w)
    \/ \E u \in Payers : pc = [w \in Workers |-> Idle]
                         /\ StripePaymentView_form_valid(u, "pm_1", "ok")
    \/ Tick

SpecConc == Init /\ [][NextConc]_vars

\* StripePaymentView, lines 214-222 (saved card) and 244-250 (new card): the
\* order, then the intent the processor creates for its raw total.
IntentBegin(w, u, path) ==
    /\ Begins(w)
    /\ CanResolve(u)
    /\ orders' = ResolvedOrders(orders, u)
    /\ LET o == ResolvedId(orders, u)
       IN /\ Chargeable(items, o)
          /\ Len(intents) < MaxIntents
          /\ intents' = CreatedIntents(intents, o, get_raw_total(items, o),
                                       path = "saved")
          /\ Goes(w, [at |-> "intent_save", order |-> o, path |-> path,
                      n |-> Len(intents) + 1])
    /\ UNCHANGED <<items, itemSeq, addresses, stripePayments, payments, now,
                   response, ledger, flippers>>

\* Lines 223-228 and 252-255: get_or_create for the order, then the save of
\* the identifier (a string at line 226, a 1-tuple at line 253) and the total.
IntentSave(w) ==
    /\ pc[w].at = "intent_save"
    /\ stripePayments' = UpsertedStripePayments(
           stripePayments, pc[w].order,
           IF pc[w].path = "saved" THEN IntentId(pc[w].n) ELSE IntentIdTuple(pc[w].n),
           get_total(items, pc[w].order))
    /\ Ends(w, IF pc[w].path = "saved" THEN "stripe_form" ELSE "stripe_page",
            IF pc[w].path = "saved" THEN 302 ELSE 200)
    /\ UNCHANGED <<orders, items, itemSeq, addresses, payments, intents, now,
                   ledger, served, flippers>>

\* CheckoutView.form_valid, lines 145-151: the order row and the form's choices.
CheckoutBegin(w, u, selected_shipping_address, selected_billing_address) ==
    /\ Begins(w)
    /\ CanResolve(u)
    /\ orders' = ResolvedOrders(orders, u)
    /\ Goes(w, [at |-> "checkout_addresses", order |-> ResolvedId(orders, u),
                row |-> ResolvedOrders(orders, u)[ResolvedId(orders, u)],
                user |-> u,
                selected_shipping_address |-> selected_shipping_address,
                selected_billing_address |-> selected_billing_address])
    /\ UNCHANGED <<items, itemSeq, addresses, stripePayments, payments, intents,
                   now, response, ledger, flippers>>

\* Lines 152-176: the addresses are created and assigned to the order in memory.
CheckoutAddresses(w) ==
    /\ pc[w].at = "checkout_addresses"
    /\ LET a1 == IF pc[w].selected_shipping_address # None THEN addresses
                 ELSE CreatedAddresses(addresses, pc[w].user, "S")
           shipping == IF pc[w].selected_shipping_address # None
                       THEN pc[w].selected_shipping_address ELSE Some(Len(a1))
           a2 == IF pc[w].selected_billing_address # None THEN a1
                 ELSE CreatedAddresses(a1, pc[w].user, "B")
           billing == IF pc[w].selected_billing_address # None
                      THEN pc[w].selected_billing_address ELSE Some(Len(a2))
       IN /\ Len(a2) <= MaxAddresses
          /\ addresses' = a2
          /\ Goes(w, [at |-> "checkout_save", order |-> pc[w].order,
                      row |-> [pc[w].row EXCEPT !.shipping_address = shipping,
                                                !.billing_address = billing]])
    /\ UNCHANGED <<orders, items, itemSeq, stripePayments, payments, intents,
                   now, response, ledger, served, flippers>>

\* Line 178: order.save() writes every column of the row as it was read.
CheckoutSave(w) ==
    /\ pc[w].at = "checkout_save"
    /\ orders' = [orders EXCEPT ![pc[w].order] = pc[w].row]
    /\ Ends(w, "checkout", 302)
    /\ UNCHANGED <<items, itemSeq, addresses, stripePayments, payments, intents,
                   now, ledger, served, flippers>>

\* Two workers serve one caller's payment pages, checkout and confirmation.
NextRace ==
    \/ \E u \in Payers : pc = [w \in Workers |-> Idle]
                         /\ ProductDetailView_form_valid(u, "A", "red", "M", 1)
    \/ \E w \in Workers, u \in Payers, path \in {"saved", "new"} :
          IntentBegin(w, u, path)
    \/ \E w \in Workers : IntentSave(w)
    \/ \E w \in Workers, u \in Payers :
          \E s \in Selectable(u, "S"), b \in Selectable(u, "B") :
             CheckoutBegin(w, u, s, b)
    \/ \E w \in Workers : CheckoutAddresses(w)
    \/ \E w \in Workers : CheckoutSave(w)
    \/ \E w \in Workers, u \in Payers : ConfirmBegin(w, u, <<2500>>)
    \/ \E w \in Workers : ConfirmCreate(w)
    \/ \E w \in Workers : ConfirmSave(w)

SpecRace == Init /\ [][NextRace]_vars

\* ---------------------------------------------------------------- claims
ItemsOf(its, o) == {i \in its : i.order = o}
PaymentsOf(pays, o) == {j \in DOMAIN pays : pays[j].order = o}
InOpenOrderOf(u, pk) ==
    pk \in ItemIds /\ Item(pk).order \in OpenOrders(orders, u)

\* C1: a confirmation signal that arrives when the order is already PLACED is
\* a no-op: no step changes the ordered_date of a placed order or appends a
\* Payment row for it.
C1_PlacedOnce ==
    [][\A o \in DOMAIN orders :
          orders[o].ordered =>
             /\ orders'[o].ordered_date = orders[o].ordered_date
             /\ PaymentsOf(payments', o) = PaymentsOf(payments, o)]_vars

\* C2: of a confirmation request and a webhook that run concurrently for one
\* order, only one makes the OPEN->PLACED transition: a request that read the
\* order as OPEN writes ordered and ordered_date only while it still is OPEN.
C2_RaceFlipsOnce ==
    [][\A w \in Workers :
          /\ ConfirmSave(w) => "webhook" \notin flippers[pc[w].order]
          /\ WebhookSaveOrder(w) /\ ~pc[w].row.ordered
                => "confirm" \notin flippers[pc[w].order]]_vars

\* C3: increase, decrease and remove answer not-found and change nothing when
\* the item is not in the caller's own open order, and no cart request of a
\* caller changes the items of an order that is not the caller's open order.
C3_OwnCartOnly ==
    [][\A u \in Users :
          /\ \A pk \in 1..MaxItems :
                /\ \/ IncreaseQuantityView_get(u, pk)
                   \/ DecreaseQuantityView_get(u, pk)
                   \/ RemoveFromCartView_get(u, pk)
                /\ ~InOpenOrderOf(u, pk)
                => response'.status = 404 /\ items' = items
          /\ \A pk \in 1..MaxItems, o \in DOMAIN orders :
                /\ \/ IncreaseQuantityView_get(u, pk)
                   \/ DecreaseQuantityView_get(u, pk)
                   \/ RemoveFromCartView_get(u, pk)
                /\ o \notin OpenOrders(orders, u)
                => ItemsOf(items', o) = ItemsOf(items, o)]_vars

\* C4: however the add-to-cart requests for one (product, colour, size) of an
\* order follow one another, the order holds one row for the combination and
\* its quantity is the sum requested (net of the later increases, decreases
\* and removals the ledger records); with nothing requested it holds none.
C4_AddMerges ==
    \A k \in Keys :
        LET rows == Matching(items, k[1], k[2], k[3], k[4])
        IN IF ledger[k] = 0 THEN rows = {}
           ELSE Cardinality(rows) = 1 /\ \A r \in rows : r.quantity = ledger[k]

\* An add-to-cart request was merged into an existing row.
C4_Witness ==
    /\ response = Resp("add", 302)
    /\ \E i \in items : i.quantity = MaxQty /\ ledger[KeyOf(i)] = MaxQty

\* C5: decrease removes an item of quantity 1, lowers a quantity of 2 or more
\* by exactly 1 without removing the item, and every stored item has
\* quantity >= 1 in every state.
C5_DecreaseFloor ==
    /\ [](\A i \in items : i.quantity >= 1)
    /\ [][\A u \in Users, pk \in 1..MaxItems :
             DecreaseQuantityView_get(u, pk) /\ pk \in ItemIds =>
                IF Item(pk).quantity = 1
                THEN \A i \in items' : i.id # pk
                ELSE \E i \in items' :
                        i.id = pk /\ i.quantity = Item(pk).quantity - 1]_vars

\* The only item ever created was found by a decrease, which removed it.
C5_Witness ==
    /\ response = Resp("decrease", 302)
    /\ itemSeq = 1
    /\ items = {}

\* C6: once an order is placed, no request changes its row (addresses,
\* ordered_date) or its line items.
C6_PlacedImmutable ==
    [][\A o \in DOMAIN orders :
          orders[o].ordered =>
             /\ orders'[o] = orders[o]
             /\ ItemsOf(items', o) = ItemsOf(items, o)]_vars

\* C7: requests that change the quantity of one line item concurrently lose
\* no update: once they have all been served, the quantity of the one row an
\* order holds for a combination is the sum of the quantities added,
\* increased and decreased.
C7_NoLostUpdate ==
    (\A w \in Workers : pc[w] = Idle) =>
        \A k \in Keys :
            LET rows == Matching(items, k[1], k[2], k[3], k[4])
            IN Cardinality(rows) = 1 => \A r \in rows : r.quantity = ledger[k]

\* C8: a verified payment_intent.succeeded webhook whose intent id matches a
\* StripePayment row marks that row successful, places the row's order with a
\* date, leaves every other order as it was, and answers 200.
C8_WebhookPlaces ==
    [][\A n \in 1..MaxIntents :
          /\ stripe_webhook_view(TRUE, "wellformed", "valid",
                                 "payment_intent.succeeded", n)
          /\ RecordsWithIntent(stripePayments, n) # {}
          => \A j \in RecordsWithIntent(stripePayments, n) :
                LET r == stripePayments[j]
                IN /\ response' = Resp("webhook", 200)
                   /\ stripePayments'[j] = [r EXCEPT !.successful = TRUE]
                   /\ orders'[r.order].ordered
                   /\ orders'[r.order].ordered_date # None
                   /\ \A o \in DOMAIN orders :
                         o # r.order => orders'[o] = orders[o]]_vars

\* The webhook placed the order of a matched row while another order is open.
C8_Witness ==
    /\ response = Resp("webhook", 200)
    /\ \E j \in DOMAIN stripePayments :
          /\ stripePayments[j].successful
          /\ orders[stripePayments[j].order].ordered
          /\ orders[stripePayments[j].order].ordered_date = Some(now)
    /\ \E o \in DOMAIN orders : ~orders[o].ordered

\* C9: a webhook with the signature header whose payload is malformed, whose
\* signature does not verify, or whose event is not payment_intent.succeeded
\* answers 400 and leaves Order, StripePayment and Payment rows unchanged.
C9_RejectedWebhook ==
    [][\A payload \in Payloads, sig_header \in Signatures, type \in EventTypes,
          n \in 1..MaxIntents :
          /\ stripe_webhook_view(TRUE, payload, sig_header, type, n)
          /\ \/ payload = "malformed"
             \/ sig_header = "invalid"
             \/ type # "payment_intent.succeeded"
          => /\ response' = Resp("webhook", 400)
             /\ UNCHANGED <<orders, stripePayments, payments>>]_vars

\* A webhook was rejected while a row it could have matched awaits payment.
C9_Witness ==
    /\ response = Resp("webhook", 400)
    /\ \E j \in DOMAIN stripePayments :
          /\ stripePayments[j].payment_intent_id.repr = "str"
          /\ ~stripePayments[j].successful
          /\ ~orders[stripePayments[j].order].ordered

\* C10: every webhook request is answered 200 or 400.
C10_WebhookAnswers ==
    response.view = "webhook" => response.status \in {200, 400}

\* The intents the processor holds for order o, and the latest of them.
IntentsOf(ints, o) == {n \in DOMAIN ints : ints[n].order = o}
LatestIntent(ints, o) ==
    CHOOSE n \in IntentsOf(ints, o) : \A m \in IntentsOf(ints, o) : m <= n

\* C11: once the payment-page and saved-card requests for a still-open order
\* have all been served, the order has exactly one StripePayment row, and the
\* row names the intent of the most recent of them (the latest intent the
\* processor created for the order) and holds that intent's amount.
C11_OneRecordLatestIntent ==
    (\A w \in Workers : pc[w] = Idle) =>
        \A o \in DOMAIN orders :
            ~orders[o].ordered /\ IntentsOf(intents, o) # {} =>
                /\ Cardinality(RecordsOf(stripePayments, o)) = 1
                /\ \A j \in RecordsOf(stripePayments, o) :
                      /\ stripePayments[j].payment_intent_id.pi
                            = LatestIntent(intents, o)
                      /\ stripePayments[j].amount
                            = <<intents[LatestIntent(intents, o)].amount \div 100,
                                intents[LatestIntent(intents, o)].amount % 100>>

\* C12: no state a concurrent request can observe has a successful
\* StripePayment row, or a successful Payment row, whose order is still OPEN.
C12_AtomicFlip ==
    /\ \A j \in DOMAIN stripePayments :
          stripePayments[j].successful => orders[stripePayments[j].order].ordered
    /\ \A j \in DOMAIN payments :
          payments[j].successful => orders[payments[j].order].ordered

\* C13: a saved-card form_valid that the processor fails changes nothing: no
\* StripePayment row is created or modified, no existing order changes and
\* the caller's order is OPEN with the items it had, so the request can be
\* made again; a card failure is answered with the warning and the redirect,
\* any other processor error leaves the view as an error.
C13_FailedPaymentChangesNothing ==
    [][\A u \in Payers, outcome \in {"CardError", "StripeError"} :
          StripePaymentView_form_valid(u, "pm_1", outcome) =>
             /\ stripePayments' = stripePayments
             /\ orders' = ResolvedOrders(orders, u)
             /\ ~orders'[ResolvedId(orders, u)].ordered
             /\ (OpenOrders(orders, u) # {})'
             /\ items' = items
             /\ response' = IF outcome = "CardError"
                            THEN Resp("stripe_warning", 302)
                            ELSE Resp("stripe_form", 500)]_vars

\* After a card failure that left no record behind, the same request was made
\* again for the same order and went through.
C13_Witness ==
    /\ response = Resp("stripe_form", 302)
    /\ Len(intents) = 2
    /\ ~intents[1].confirmed
    /\ intents[2].confirmed
    /\ intents[1].order = intents[2].order
    /\ \E j \in DOMAIN stripePayments :
          /\ stripePayments[j].order = intents[2].order
          /\ stripePayments[j].payment_intent_id = IntentId(2)

\* C14: when a payment page (new card) or a saved-card payment has been
\* served, a lookup of StripePayment by the identifier the processor gave the
\* intent just created returns the record of the intent's order.
C14_StoredIdIsProcessorId ==
    response \in {Resp("stripe_page", 200), Resp("stripe_form", 302)}
        /\ intents # <<>> =>
        \E j \in RecordsWithIntent(stripePayments, Len(intents)) :
            stripePayments[j].order = intents[Len(intents)].order

\* C15: for every intent the system had the processor confirm for an order, a
\* verified payment_intent.succeeded webhook carrying the intent's identifier
\* is answered 200 and places that order, whatever payment requests were
\* served for the order in between.
C15_WebhookFindsEveryIntent ==
    [][\A n \in DOMAIN intents :
          /\ intents[n].confirmed
          /\ stripe_webhook_view(TRUE, "wellformed", "valid",
                                 "payment_intent.succeeded", n)
          => /\ response' = Resp("webhook", 200)
             /\ orders'[intents[n].order].ordered]_vars

\* C16: whenever a payment_intent.succeeded webhook places an order, the
\* amount the intent was created for is the raw total of the order's items
\* at that moment.
C16_PaidAmountIsTotal ==
    [][\A n \in DOMAIN intents :
          /\ stripe_webhook_view(TRUE, "wellformed", "valid",
                                 "payment_intent.succeeded", n)
          /\ response'.status = 200
          /\ ~orders[intents[n].order].ordered
          => /\ orders'[intents[n].order].ordered
             /\ intents[n].amount = get_raw_total(items', intents[n].order)]_vars

\* C17: in every state an order has an ordered_date exactly when it is
\* ordered, and the only steps that change either field of an order are the
\* writes of ConfirmOrderView.post and of a verified payment_intent.succeeded
\* webhook, which place it.
C17_DateIffOrdered ==
    /\ [](\A o \in DOMAIN orders :
             orders[o].ordered <=> orders[o].ordered_date # None)
    /\ [][\A o \in DOMAIN orders :
             \/ orders'[o].ordered # orders[o].ordered
             \/ orders'[o].ordered_date # orders[o].ordered_date
             => /\ orders'[o].ordered
                /\ \/ \E w \in Workers : ConfirmSave(w) \/ WebhookSaveOrder(w)
                   \/ \E u \in Users, body \in Bodies : ConfirmOrderView_post(u, body)
                   \/ \E n \in 1..MaxIntents :
                         stripe_webhook_view(TRUE, "wellformed", "valid",
                                             "payment_intent.succeeded", n)]_vars
====
